---- MODULE Spec2Model ----
(***************************************************************************)
(* Model of src/app/app.py: the Streamlit shoe-size application.           *)
(*                                                                         *)
(*   load_models        the cached loader of assets/model.pkl and          *)
(*                      assets/label_encoder.pkl (lines 123-155)           *)
(*   predict_shoe_size  the prediction service (lines 158-178)             *)
(*   main               one script run: load, widgets, click handling      *)
(*                      (lines 181-282)                                    *)
(*                                                                         *)
(* Streamlit runs main once per user interaction, each browser session in  *)
(* a thread of its own; the st.cache_resource cache is shared by all of    *)
(* them.  st.stop() raises a BaseException that no "except Exception"      *)
(* catches: it ends the script run, not the process.                       *)
(*                                                                         *)
(* Numbers returned by the regression model are kept in thousandths, the   *)
(* rounded result in hundredths.                                           *)
(***************************************************************************)
EXTENDS Integers, Sequences, FiniteSets, TLC

VARIABLES
    fs,      \* the storage: assets/ and what its two files hold
    cache,   \* st.cache_resource's entry for load_models: <<>> or <<pair>>
    lock,    \* the session computing the cached value, or Free
    opens,   \* per artifact, how often it was opened and deserialized
    runs,    \* per session, how many script runs it has started
    run,     \* per session, the state of its current script run
    overlap  \* history: two first callers were inside load_models together

vars == <<fs, cache, lock, opens, runs, run, overlap>>

----------------------------------------------------------------------------
(* Bounds of the model *)

MaxRuns == 2

Sessions == {"s1", "s2"}

(* Program constants *)

MinAge == 1
MaxAge == 100
MinHeight == 50
MaxHeight == 250

----------------------------------------------------------------------------
(* Values *)

None == <<>>
Some(v) == <<v>>

Free == "free"
NoSelection == "<None>"

\* The labels a LabelEncoder may have been fitted on, in its sorted order.
LabelOrder == <<"Female", "Male">>

\* What pickle.load may yield for assets/label_encoder.pkl: a LabelEncoder,
\* fitted (on two labels, on an empty column) or never fitted.
EncoderObjects ==
    { [kind |-> "LabelEncoder", fitted |-> TRUE,  classes |-> {"Female", "Male"}],
      [kind |-> "LabelEncoder", fitted |-> TRUE,  classes |-> {}],
      [kind |-> "LabelEncoder", fitted |-> FALSE, classes |-> {}] }

\* What pickle.load may yield for assets/model.pkl: a regressor fitted on
\* the three features, one fitted on another number of features, one whose
\* predict fails inside.
ModelObjects ==
    { [kind |-> "fitted"], [kind |-> "shape_mismatch"], [kind |-> "numeric_failure"] }

\* str(e) of what pickle.load raises on a file it cannot deserialize.
UnpicklingError == "invalid load key"

Absent == [kind |-> "absent"]
Corrupt == [kind |-> "corrupt"]

\* The values the two number inputs and the select box hand to the script.
AgeValues == {MinAge - 1, MinAge, MaxAge, MaxAge + 1}
HeightValues == {MinHeight - 1, MinHeight, MaxHeight, MaxHeight + 1}

\* The values a direct caller of predict_shoe_size may pass.
GenderValues == {"", "Alien", "Female", "Male", "Unknown"}

----------------------------------------------------------------------------
(* st.error messages *)

Error(text, detail) == [text |-> text, detail |-> detail]

AssetsMissing == Error("Assets folder not found", "assets")
ModelMissing == Error("model.pkl not found", "assets/model.pkl")
EncoderMissing == Error("label_encoder.pkl not found", "assets/label_encoder.pkl")
LoadFailed(cause) == Error("Error loading model files", cause)
LoadHint == Error("Please ensure both files are in assets", "assets")
InvalidGender(gender) == Error("Invalid gender value", gender)
PredictionError(cause) == Error("Prediction error", cause)
OptionsError(cause) == Error("Error loading gender options", cause)
AgeRange == Error("Please enter an age between 1 and 100 years", "age")
HeightRange == Error("Please enter a height between 50 and 250 cm", "height")
GenderRequired == Error("Please select a gender", "gender")

----------------------------------------------------------------------------
(* The collaborators: LabelEncoder, the regressor, round *)

Raise(type, msg) == [raised |-> TRUE, type |-> type, msg |-> msg, value |-> 0]
Return(v) == [raised |-> FALSE, type |-> "", msg |-> "", value |-> v]

\* isinstance(e, ValueError): NotFittedError derives from ValueError.
IsValueError(e) == e.type \in {"ValueError", "NotFittedError"}

Position(label) == CHOOSE i \in 1..Len(LabelOrder) : LabelOrder[i] = label

\* The code of a known label: its index among the sorted classes.
Code(classes, label) ==
    Cardinality({c \in classes : Position(c) < Position(label)})

\* label_encoder.transform([gender])[0]
transform(label_encoder, gender) ==
    IF ~label_encoder.fitted
    THEN Raise("NotFittedError", "not fitted")
    ELSE IF gender \notin label_encoder.classes
         THEN Raise("ValueError", "unseen label")
         ELSE Return(Code(label_encoder.classes, gender))

\* label_encoder.classes_
classes_(label_encoder) ==
    IF label_encoder.fitted
    THEN Return(label_encoder.classes)
    ELSE Raise("AttributeError", "no attribute classes_")

\* The fitted regressor's value for a row [x1, x2, x3], in thousandths.
Regression(row) == 3 * row[1] + 7 * row[2] + 505 * row[3]

\* model.predict(input_data)[0]
model_predict(model, input_data) ==
    CASE model.kind = "fitted" -> Return(Regression(input_data))
      [] model.kind = "shape_mismatch" -> Raise("ValueError", "feature count")
      [] OTHER -> Raise("FloatingPointError", "numeric failure")

\* round(prediction, 2): thousandths to hundredths, ties to even.
round2(prediction) ==
    LET q == prediction \div 10
        r == prediction % 10
    IN  IF r < 5 THEN q
        ELSE IF r > 5 THEN q + 1
        ELSE IF q % 2 = 0 THEN q ELSE q + 1

----------------------------------------------------------------------------
(* predict_shoe_size *)

\* A faulty variant: the first two fields in the other order.
input_array_swapped(age, height, gender_encoded) == <<height, age, gender_encoded>>

\* np.array([[age, height, gender_encoded]])
input_array(age, height, gender_encoded) == <<age, height, gender_encoded>>

\* A faulty variant: no except ValueError clause, every exception is
\* reported as a prediction error.
predict_shoe_size_generic_handler(age, height, gender, model, label_encoder) ==
    LET enc == transform(label_encoder, gender)
        input_data == input_array(age, height, enc.value)
        pred == model_predict(model, input_data)
        exc == IF enc.raised THEN enc ELSE pred
        rows == IF enc.raised THEN <<>> ELSE <<input_data>>
    IN  IF ~exc.raised
        THEN [ret |-> Some(round2(pred.value)), errs |-> <<>>, rows |-> rows]
        ELSE [ret |-> None, errs |-> <<PredictionError(exc.msg)>>, rows |-> rows]

\* A faulty variant: a gender that cannot be encoded is given code 0 and
\* the prediction goes on.
predict_shoe_size_defaulting(age, height, gender, model, label_encoder) ==
    LET enc == transform(label_encoder, gender)
        input_data == input_array(age, height, IF enc.raised THEN 0 ELSE enc.value)
        pred == model_predict(model, input_data)
    IN  IF ~pred.raised
        THEN [ret |-> Some(round2(pred.value)), errs |-> <<>>, rows |-> <<input_data>>]
        ELSE IF IsValueError(pred)
             THEN [ret |-> None, errs |-> <<InvalidGender(gender)>>, rows |-> <<input_data>>]
             ELSE [ret |-> None, errs |-> <<PredictionError(pred.msg)>>, rows |-> <<input_data>>]

\* The value returned, the st.error messages shown and the rows handed to
\* model.predict.
predict_shoe_size(age, height, gender, model, label_encoder) ==
    LET enc == transform(label_encoder, gender)
        input_data == input_array(age, height, enc.value)
        pred == model_predict(model, input_data)
        exc == IF enc.raised THEN enc ELSE pred
        rows == IF enc.raised THEN <<>> ELSE <<input_data>>
    IN  IF ~exc.raised
        THEN [ret |-> Some(round2(pred.value)), errs |-> <<>>, rows |-> rows]
        ELSE IF IsValueError(exc)
             THEN [ret |-> None, errs |-> <<InvalidGender(gender)>>, rows |-> rows]
             ELSE [ret |-> None, errs |-> <<PredictionError(exc.msg)>>, rows |-> rows]

----------------------------------------------------------------------------
(* The state of one script run *)

FreshRun ==
    [pc |-> "idle",       \* where the run is
     acc |-> <<>>,        \* load_models: the storage accesses of this call
     errs |-> <<>>,       \* the st.error messages shown, in order
     lm |-> None,         \* load_models: its local variable model
     handles |-> None,    \* what load_models returned to main
     age |-> 0, height |-> 0, gender |-> NoSelection,
     clicked |-> FALSE,   \* predict_button
     queried |-> "no",    \* label_encoder.classes_: "no", "ok" or "failed"
     called |-> <<>>,     \* the argument lists of predict_shoe_size
     rows |-> <<>>,       \* the rows handed to model.predict
     ret |-> None,        \* predicted_size
     shown |-> None]      \* the number in the "Predicted Shoe Size" box

InLoad == {"wait", "check_dir", "load_model", "load_encoder"}

Files ==
    {[dir |-> FALSE, model |-> Absent, encoder |-> Absent]}
    \cup [dir : {TRUE},
          model : {Absent, Corrupt} \cup ModelObjects,
          encoder : {Absent, Corrupt} \cup EncoderObjects]

Init ==
    /\ fs \in Files
    /\ cache = None
    /\ lock = Free
    /\ opens = [model |-> 0, encoder |-> 0]
    /\ runs = [s \in Sessions |-> 0]
    /\ run = [s \in Sessions |-> FreshRun]
    /\ overlap = FALSE

----------------------------------------------------------------------------
(* load_models, under st.cache_resource *)

\* Two first callers are inside load_models together: this caller's first
\* call begins while another's first call is in flight and no call has
\* ended yet.
FirstCallersOverlap(s) ==
    /\ runs[s] = 0
    /\ \E t \in Sessions \ {s} : run[t].pc \in InLoad
    /\ \A t \in Sessions \ {s} :
          runs[t] = 0 \/ (runs[t] = 1 /\ run[t].pc \in InLoad)

\* A script run begins and main calls load_models: the cache is looked up.
call_load_models(s) ==
    /\ run[s].pc \in {"idle", "done", "stopped"}
    /\ runs[s] < MaxRuns
    /\ runs' = [runs EXCEPT ![s] = @ + 1]
    /\ run' = [run EXCEPT ![s] =
                 IF cache # None
                 THEN [FreshRun EXCEPT !.pc = "loaded", !.handles = cache]
                 ELSE [FreshRun EXCEPT !.pc = "wait"]]
    /\ overlap' = (overlap \/ (cache = None /\ FirstCallersOverlap(s)))
    /\ UNCHANGED <<fs, cache, lock, opens>>

\* A cache miss takes the function's compute lock and looks again.
acquire(s) ==
    /\ run[s].pc = "wait"
    /\ lock = Free
    /\ IF cache # None
       THEN /\ run' = [run EXCEPT ![s].pc = "loaded", ![s].handles = cache]
            /\ UNCHANGED lock
       ELSE /\ run' = [run EXCEPT ![s].pc = "check_dir"]
            /\ lock' = s
    /\ UNCHANGED <<fs, cache, opens, runs, overlap>>

\* st.error(...) for each message, then st.stop(): the run ends, nothing is
\* returned and nothing is cached.
halt(s, accesses, messages) ==
    /\ run' = [run EXCEPT ![s].pc = "stopped",
                          ![s].acc = @ \o accesses,
                          ![s].errs = @ \o messages,
                          ![s].lm = None]
    /\ lock' = Free
    /\ UNCHANGED <<fs, cache, runs, overlap>>

\* if not os.path.exists('assets')
check_dir(s) ==
    /\ run[s].pc = "check_dir"
    /\ IF ~fs.dir
       THEN halt(s, <<"exists assets">>, <<AssetsMissing>>) /\ UNCHANGED opens
       ELSE /\ run' = [run EXCEPT ![s].pc = "load_model",
                                  ![s].acc = @ \o <<"exists assets">>]
            /\ UNCHANGED <<fs, cache, lock, opens, runs, overlap>>

\* A faulty variant: the error is shown but st.stop() is missing.
model_absent_continues(s) ==
    /\ run' = [run EXCEPT ![s].pc = "load_encoder",
                          ![s].acc = @ \o <<"exists model.pkl">>,
                          ![s].errs = @ \o <<ModelMissing>>]
    /\ UNCHANGED <<fs, cache, lock, runs, overlap>>

\* if not os.path.exists(model_path): st.error(...); st.stop()
model_absent(s) ==
    halt(s, <<"exists model.pkl">>, <<ModelMissing>>)

\* model_path: the existence check, then open and pickle.load
load_model(s) ==
    /\ run[s].pc = "load_model"
    /\ IF fs.model = Absent
       THEN model_absent(s) /\ UNCHANGED opens
       ELSE IF fs.model = Corrupt
            THEN /\ halt(s, <<"exists model.pkl", "open model.pkl">>,
                         <<LoadFailed(UnpicklingError), LoadHint>>)
                 /\ UNCHANGED opens
            ELSE /\ opens' = [opens EXCEPT !.model = @ + 1]
                 /\ run' = [run EXCEPT
                              ![s].pc = "load_encoder",
                              ![s].acc = @ \o <<"exists model.pkl", "open model.pkl">>,
                              ![s].lm = Some(fs.model)]
                 /\ UNCHANGED <<fs, cache, lock, runs, overlap>>

NoObject == [kind |-> "None", fitted |-> FALSE, classes |-> {}]

\* A faulty variant: the model is returned with no encoder.
encoder_absent_partial(s) ==
    /\ run' = [run EXCEPT ![s].pc = "loaded",
                          ![s].acc = @ \o <<"exists label_encoder.pkl">>,
                          ![s].errs = @ \o <<EncoderMissing>>,
                          ![s].handles = Some([model |-> run[s].lm[1],
                                               encoder |-> NoObject, id |-> 0])]
    /\ lock' = Free
    /\ UNCHANGED <<fs, cache, runs, overlap>>

\* if not os.path.exists(encoder_path): st.error(...); st.stop()
encoder_absent(s) ==
    halt(s, <<"exists label_encoder.pkl">>, <<EncoderMissing>>)

\* encoder_path: the existence check, then open and pickle.load; the pair is
\* returned, and the cache keeps it.
load_encoder(s) ==
    /\ run[s].pc = "load_encoder"
    /\ IF fs.encoder = Absent
       THEN encoder_absent(s) /\ UNCHANGED opens
       ELSE IF fs.encoder = Corrupt
            THEN /\ halt(s, <<"exists label_encoder.pkl", "open label_encoder.pkl">>,
                         <<LoadFailed(UnpicklingError), LoadHint>>)
                 /\ UNCHANGED opens
            ELSE LET pair == [model |-> run[s].lm[1], encoder |-> fs.encoder,
                              id |-> opens.encoder + 1]
                 IN  /\ opens' = [opens EXCEPT !.encoder = @ + 1]
                     /\ run' = [run EXCEPT
                                  ![s].pc = "loaded",
                                  ![s].acc = @ \o <<"exists label_encoder.pkl",
                                                    "open label_encoder.pkl">>,
                                  ![s].handles = Some(pair)]
                     /\ cache' = Some(pair)
                     /\ lock' = Free
                     /\ UNCHANGED <<fs, runs, overlap>>

----------------------------------------------------------------------------
(* main, after load_models has returned *)

\* What st.selectbox may hand back for these options: one of them, or None
\* when there is none.
selectbox(options) == IF options = {} THEN {NoSelection} ELSE options

\* A faulty variant: the bounds of age and height taken as exclusive.
on_click_exclusive(age, height, gender, model, label_encoder) ==
    IF age <= MinAge \/ age >= MaxAge
    THEN [errs |-> <<AgeRange>>, called |-> <<>>, rows |-> <<>>, ret |-> None]
    ELSE IF height <= MinHeight \/ height >= MaxHeight
    THEN [errs |-> <<HeightRange>>, called |-> <<>>, rows |-> <<>>, ret |-> None]
    ELSE IF gender \in {NoSelection, ""}
    THEN [errs |-> <<GenderRequired>>, called |-> <<>>, rows |-> <<>>, ret |-> None]
    ELSE LET p == predict_shoe_size(age, height, gender, model, label_encoder)
         IN  [errs |-> p.errs, called |-> <<<<age, height, gender>>>>,
              rows |-> p.rows, ret |-> p.ret]

\* if predict_button: the three checks, then predict_shoe_size
on_click(age, height, gender, model, label_encoder) ==
    IF age < MinAge \/ age > MaxAge
    THEN [errs |-> <<AgeRange>>, called |-> <<>>, rows |-> <<>>, ret |-> None]
    ELSE IF height < MinHeight \/ height > MaxHeight
    THEN [errs |-> <<HeightRange>>, called |-> <<>>, rows |-> <<>>, ret |-> None]
    ELSE IF gender \in {NoSelection, ""}
    THEN [errs |-> <<GenderRequired>>, called |-> <<>>, rows |-> <<>>, ret |-> None]
    ELSE LET p == predict_shoe_size(age, height, gender, model, label_encoder)
         IN  [errs |-> p.errs, called |-> <<<<age, height, gender>>>>,
              rows |-> p.rows, ret |-> p.ret]

\* The widgets, the button and the click handling of one script run.
main(s) ==
    /\ run[s].pc = "loaded"
    /\ LET model == run[s].handles[1].model
           label_encoder == run[s].handles[1].encoder
           q == classes_(label_encoder)
       IN  \E age \in AgeValues, height \in HeightValues, predict_button \in BOOLEAN :
           \E gender \in (IF q.raised THEN {"Unknown"} ELSE selectbox(q.value)) :
              LET shownBefore == IF q.raised THEN <<OptionsError(q.msg)>> ELSE <<>>
                  c == IF predict_button
                       THEN on_click(age, height, gender, model, label_encoder)
                       ELSE [errs |-> <<>>, called |-> <<>>, rows |-> <<>>, ret |-> None]
              IN  run' = [run EXCEPT
                            ![s].pc = "done",
                            ![s].age = age,
                            ![s].height = height,
                            ![s].gender = gender,
                            ![s].clicked = predict_button,
                            ![s].queried = IF q.raised THEN "failed" ELSE "ok",
                            ![s].errs = @ \o shownBefore \o c.errs,
                            ![s].called = c.called,
                            ![s].rows = c.rows,
                            ![s].ret = c.ret,
                            ![s].shown = c.ret]
    /\ UNCHANGED <<fs, cache, lock, opens, runs, overlap>>

Next ==
    \E s \in Sessions :
        \/ call_load_models(s)
        \/ acquire(s)
        \/ check_dir(s)
        \/ load_model(s)
        \/ load_encoder(s)
        \/ main(s)

Spec == Init /\ [][Next]_vars

----------------------------------------------------------------------------
(* predict_shoe_size called directly, with any arguments *)

InitService ==
    /\ fs \in [dir : {TRUE}, model : ModelObjects, encoder : EncoderObjects]
    /\ cache = Some([model |-> fs.model, encoder |-> fs.encoder, id |-> 1])
    /\ lock = Free
    /\ opens = [model |-> 1, encoder |-> 1]
    /\ runs = [s \in Sessions |-> 0]
    /\ run = [s \in Sessions |-> [FreshRun EXCEPT !.pc = "service", !.handles = cache]]
    /\ overlap = FALSE

\* predict_shoe_size(age, height, gender, model, label_encoder)
direct_call(s) ==
    /\ run[s].pc = "service"
    /\ \E age \in AgeValues, height \in HeightValues, gender \in GenderValues :
          LET p == predict_shoe_size(age, height, gender,
                                     run[s].handles[1].model,
                                     run[s].handles[1].encoder)
          IN  run' = [run EXCEPT
                        ![s].pc = "returned",
                        ![s].age = age,
                        ![s].height = height,
                        ![s].gender = gender,
                        ![s].called = <<<<age, height, gender>>>>,
                        ![s].errs = p.errs,
                        ![s].rows = p.rows,
                        ![s].ret = p.ret]
    /\ UNCHANGED <<fs, cache, lock, opens, runs, overlap>>

NextService == \E s \in Sessions : direct_call(s)

SpecService == InitService /\ [][NextService]_vars

----------------------------------------------------------------------------
(* Properties of predict_shoe_size, under SpecService *)

Returned(s) == run[s].pc = "returned"
Model(s) == run[s].handles[1].model
Encoder(s) == run[s].handles[1].encoder
AgeInRange(s) == MinAge <= run[s].age /\ run[s].age <= MaxAge
HeightInRange(s) == MinHeight <= run[s].height /\ run[s].height <= MaxHeight
Names(s, field) == \E i \in 1..Len(run[s].errs) : run[s].errs[i].detail = field

\* C1: a call of predict_shoe_size with age outside [1,100] or height outside
\* [50,250] fails with a validation error naming the offending field and
\* returns no number, whatever its caller checked.  Stated for the calls
\* in which nothing but the range is wrong: the gender is a known label and
\* the model does not fail.
C1_ServiceRejectsOutOfRange ==
    \A s \in Sessions :
        (/\ Returned(s)
         /\ Encoder(s).fitted /\ run[s].gender \in Encoder(s).classes
         /\ Model(s).kind = "fitted") =>
            /\ ~AgeInRange(s) => run[s].ret = None /\ Names(s, "age")
            /\ ~HeightInRange(s) => run[s].ret = None /\ Names(s, "height")

\* C2: for a gender outside the encoder's known labels (the empty string
\* included), whatever age and height, predict_shoe_size returns None, shows
\* the error naming the gender and never calls model.predict.
C2_UnknownGenderRejected ==
    \A s \in Sessions :
        (Returned(s) /\ run[s].gender \notin Encoder(s).classes) =>
            /\ run[s].ret = None
            /\ run[s].errs = <<Error("Invalid gender value", run[s].gender)>>
            /\ run[s].rows = <<>>

C2_Witness ==
    \E s \in Sessions :
        /\ Returned(s)
        /\ Encoder(s).fitted /\ Encoder(s).classes = {"Female", "Male"}
        /\ Model(s).kind = "fitted"
        /\ run[s].gender = ""
        /\ run[s].ret = None
        /\ run[s].rows = <<>>

\* C3: for age in [1,100], height in [50,250] and a known gender, with a
\* model that does not fail, predict_shoe_size hands the model the one row
\* [age, height, code of gender], returns the model's value for it rounded
\* to the nearest hundredth, and shows no error.
C3_ValidInputPredicts ==
    \A s \in Sessions :
        (/\ Returned(s) /\ AgeInRange(s) /\ HeightInRange(s)
         /\ Encoder(s).fitted /\ run[s].gender \in Encoder(s).classes
         /\ Model(s).kind = "fitted") =>
            LET row == <<run[s].age, run[s].height,
                         Code(Encoder(s).classes, run[s].gender)>>
                raw == 3 * row[1] + 7 * row[2] + 505 * row[3]
            IN  /\ run[s].rows = <<row>>
                /\ run[s].errs = <<>>
                /\ Len(run[s].ret) = 1
                /\ raw - 10 * run[s].ret[1] \in -5..5

C3_Witness ==
    \E s \in Sessions :
        /\ Returned(s)
        /\ run[s].age = MaxAge /\ run[s].height = MaxHeight /\ run[s].gender = "Male"
        /\ Encoder(s).classes = {"Female", "Male"}
        /\ Model(s).kind = "fitted"
        /\ run[s].rows = <<<<100, 250, 1>>>>
        /\ run[s].ret = <<256>>

\* C4: when the gender was encoded and model.predict then raises, whatever
\* the exception's type, predict_shoe_size shows the prediction error with
\* the cause (not the invalid-gender error), returns None and has called
\* the model once.  Stated for ages and heights in range.
C4_ModelFailureIsPredictionError ==
    \A s \in Sessions :
        (/\ Returned(s) /\ AgeInRange(s) /\ HeightInRange(s)
         /\ Encoder(s).fitted /\ run[s].gender \in Encoder(s).classes
         /\ Model(s).kind # "fitted") =>
            /\ run[s].ret = None
            /\ Len(run[s].rows) = 1
            /\ Len(run[s].errs) = 1
            /\ run[s].errs[1].text = "Prediction error"
            /\ run[s].errs[1].detail = model_predict(Model(s), run[s].rows[1]).msg

----------------------------------------------------------------------------
(* Properties of the application, under Spec *)

Done(s) == run[s].pc = "done"
Stopped(s) == run[s].pc = "stopped"
GenderGiven(s) == run[s].gender \notin {NoSelection, ""}

\* The errors of the click handling: all but the select box's own.
ClickErrors(s) ==
    SelectSeq(run[s].errs, LAMBDA e : e.text # "Error loading gender options")

\* C5: a predicted shoe size is shown only when the run queried the labels,
\* the gender the user selected was encoded and the model inferred on the
\* user's age, height and gender; when the label query, the encoding or the
\* inference fails, predict_shoe_size returns None or is not called, and an
\* error is shown and no number.
C5_NoFailureBecomesANumber ==
    \A s \in Sessions :
        /\ run[s].shown # None =>
              /\ Done(s) /\ run[s].clicked /\ run[s].queried = "ok"
              /\ run[s].handles # None
              /\ Encoder(s).fitted /\ run[s].gender \in Encoder(s).classes
              /\ Model(s).kind = "fitted"
              /\ run[s].called = <<<<run[s].age, run[s].height, run[s].gender>>>>
              /\ run[s].rows = <<<<run[s].age, run[s].height,
                                   Code(Encoder(s).classes, run[s].gender)>>>>
              /\ run[s].shown = run[s].ret
        /\ (Done(s) /\ (\/ run[s].queried = "failed"
                        \/ /\ run[s].called # <<>>
                           /\ \/ run[s].gender \notin Encoder(s).classes
                              \/ Model(s).kind # "fitted")) =>
              /\ run[s].ret = None
              /\ run[s].shown = None
              /\ run[s].errs # <<>>

C5_Witness ==
    \E s \in Sessions :
        /\ Done(s) /\ run[s].clicked
        /\ run[s].queried = "failed"
        /\ run[s].gender = "Unknown"
        /\ run[s].called = <<<<run[s].age, run[s].height, "Unknown">>>>
        /\ Model(s).kind = "fitted"
        /\ run[s].ret = None /\ run[s].shown = None
        /\ Len(run[s].errs) = 2

\* C6: over any sequence of load_models calls, calls after a failed load
\* included, each artifact is opened and deserialized at most once, and
\* every call after a successful load gets the cached pair.
C6_SingleReadPerProcess ==
    /\ opens.model <= 1
    /\ opens.encoder <= 1
    /\ \A s \in Sessions :
          (cache # None /\ run[s].handles # None) => run[s].handles = cache

\* The first failing precondition of load_models for the storage fs: the
\* storage accesses up to it and the errors it is reported with.
FirstFailure ==
    IF ~fs.dir
    THEN [acc |-> <<"exists assets">>,
          errs |-> <<Error("Assets folder not found", "assets")>>]
    ELSE IF fs.model = Absent
    THEN [acc |-> <<"exists assets", "exists model.pkl">>,
          errs |-> <<Error("model.pkl not found", "assets/model.pkl")>>]
    ELSE IF fs.model = Corrupt
    THEN [acc |-> <<"exists assets", "exists model.pkl", "open model.pkl">>,
          errs |-> <<Error("Error loading model files", UnpicklingError), LoadHint>>]
    ELSE IF fs.encoder = Absent
    THEN [acc |-> <<"exists assets", "exists model.pkl", "open model.pkl",
                    "exists label_encoder.pkl">>,
          errs |-> <<Error("label_encoder.pkl not found", "assets/label_encoder.pkl")>>]
    ELSE IF fs.encoder = Corrupt
    THEN [acc |-> <<"exists assets", "exists model.pkl", "open model.pkl",
                    "exists label_encoder.pkl", "open label_encoder.pkl">>,
          errs |-> <<Error("Error loading model files", UnpicklingError), LoadHint>>]
    ELSE [acc |-> <<>>, errs |-> <<>>]

\* C7: load_models checks the directory, then the model file and its
\* deserialization, then the encoder file and its deserialization; it
\* reports the first failing one with that condition's own error and
\* touches the storage no more: with model.pkl missing the error names the
\* model file and the encoder file is neither looked up nor opened.
C7_FirstFailureReported ==
    \A s \in Sessions :
        /\ Stopped(s) =>
              /\ FirstFailure.errs # <<>>
              /\ run[s].errs = FirstFailure.errs
              /\ run[s].acc = FirstFailure.acc
        /\ run[s].pc \in InLoad => run[s].errs = <<>>

C7_Witness ==
    \E s \in Sessions :
        /\ Stopped(s)
        /\ fs.model = Absent /\ fs.encoder \in EncoderObjects
        /\ run[s].errs = <<ModelMissing>>
        /\ run[s].acc = <<"exists assets", "exists model.pkl">>

\* C8: load_models returns a pair whose model and encoder were both
\* deserialized, or it halts and returns nothing; a run whose load failed
\* queries no label set and calls predict_shoe_size never.
C8_NoPartialHandle ==
    \A s \in Sessions :
        /\ run[s].handles # None =>
              /\ run[s].handles[1].model \in ModelObjects
              /\ run[s].handles[1].encoder \in EncoderObjects
              /\ run[s].handles[1].model = fs.model
              /\ run[s].handles[1].encoder = fs.encoder
        /\ Stopped(s) =>
              /\ run[s].handles = None
              /\ run[s].queried = "no"
              /\ run[s].called = <<>>
        /\ (run[s].queried # "no" \/ run[s].called # <<>>) => run[s].handles # None

C8_Witness ==
    \E s \in Sessions :
        /\ Stopped(s)
        /\ fs.model \in ModelObjects /\ fs.encoder = Absent
        /\ opens.model >= 1
        /\ run[s].handles = None

\* C9: when two first callers are inside load_models together, the
\* artifacts are deserialized once in total, no caller gets a pair with one
\* handle missing, and all callers get the same pair.
C9_ConcurrentFirstCallersLoadOnce ==
    (overlap /\ \A s \in Sessions : runs[s] <= 1) =>
        /\ opens.model <= 1
        /\ opens.encoder <= 1
        /\ \A s, t \in Sessions :
              (run[s].handles # None /\ run[t].handles # None) =>
                  /\ run[s].handles = run[t].handles
                  /\ run[s].handles[1].model \in ModelObjects
                  /\ run[s].handles[1].encoder \in EncoderObjects

\* C10: on a click the checks run in the order age, height, gender; a
\* failing check reports its one error and predict_shoe_size (so transform
\* and model.predict) is not called; predict_shoe_size is called exactly
\* when 1 <= age <= 100, 50 <= height <= 250 and the gender is not empty.
C10_ClickChecksInOrder ==
    \A s \in Sessions :
        /\ (Done(s) /\ run[s].clicked) =>
              IF ~AgeInRange(s)
              THEN ClickErrors(s) = <<AgeRange>> /\ run[s].called = <<>> /\ run[s].rows = <<>>
              ELSE IF ~HeightInRange(s)
              THEN ClickErrors(s) = <<HeightRange>> /\ run[s].called = <<>> /\ run[s].rows = <<>>
              ELSE IF ~GenderGiven(s)
              THEN ClickErrors(s) = <<GenderRequired>> /\ run[s].called = <<>> /\ run[s].rows = <<>>
              ELSE run[s].called = <<<<run[s].age, run[s].height, run[s].gender>>>>
        /\ run[s].called # <<>> =>
              AgeInRange(s) /\ HeightInRange(s) /\ GenderGiven(s) /\ run[s].clicked

C10_Witness ==
    \E s, t \in Sessions :
        /\ Done(s) /\ run[s].clicked
        /\ run[s].age = MinAge - 1 /\ run[s].height = MaxHeight + 1
        /\ run[s].errs = <<AgeRange>> /\ run[s].called = <<>>
        /\ Done(t) /\ run[t].clicked
        /\ run[t].age = MinAge /\ run[t].height = MaxHeight
        /\ run[t].called = <<<<MinAge, MaxHeight, run[t].gender>>>>
        /\ run[t].rows # <<>>

====
